---- MODULE Spec2Model ----
(***************************************************************************)
(* DependencyListPlugin (guacamole-client, webpack plugin): the "done"     *)
(* hook maps every file dependency of a finished compilation to the NPM    *)
(* package that provided it, and writes the sorted dependency list and a   *)
(* CycloneDX SBOM.                                                         *)
(*                                                                         *)
(* JavaScript strings are modelled as sequences of UTF-16 code units, each *)
(* code unit written as a one-character TLA+ string, so that concatenation,*)
(* comparison, percent-encoding and regular-expression matching are        *)
(* computed unit by unit as the engine computes them.                      *)
(***************************************************************************)
EXTENDS Integers, Sequences, FiniteSets, TLC

VARIABLES
    pc,               \* position inside the done hook (or inside a helper call)
    fileDependencies, \* stats.compilation.fileDependencies, in iteration order
    cursor,           \* index of the next file the forEach visits
    moduleCoords,     \* the object moduleCoords: own properties in insertion order
    dirExists,        \* fs.existsSync(outputPath)
    outputFile,       \* contents of the dependency list file on disk
    sbomFile,         \* contents of the SBOM file on disk
    sbom,             \* the constant sbom of the done hook, once computed
    thrown,           \* the call whose exception left the hook, if any
    arg,              \* argument of a helper called on its own
    ret               \* what that helper returned

vars == <<pc, fileDependencies, cursor, moduleCoords, dirExists, outputFile,
          sbomFile, sbom, thrown, arg, ret>>

-----------------------------------------------------------------------------
(* Bounds of the model *)

\* Largest number of file dependencies of one compilation.
MaxFiles == 3

\* Longest package name drawn when purl construction is checked on its own.
MaxNameLen == 3

\* Longest version string drawn when purl construction is checked on its own.
MaxVersionLen == 1

\* Longest package.json chain drawn when #findPackage is checked on its own.
MaxDepth == 3

\* Longest run of whitespace drawn inside a shorthand author string.
MaxSpace == 1

\* Longest license string drawn when #toSBOMLicenses is checked on its own.
MaxLicenseLen == 3

\* Longest package name and longest version drawn when the references of two
\* packages are compared.
MaxRefNameLen == 2
MaxRefVersionLen == 1

-----------------------------------------------------------------------------
(* JavaScript strings *)

\* The printable ASCII characters in code unit order, U+0020 .. U+007E (the
\* quotation mark, the reverse solidus and the grave accent written by their
\* names).
Ascii ==
    <<" ", "!", "QUOTATION MARK", "#", "$", "%", "&", "'", "(", ")", "*", "+",
      ",", "-",
      ".", "/", "0", "1", "2", "3", "4", "5", "6", "7", "8", "9", ":", ";",
      "<", "=", ">", "?", "@", "A", "B", "C", "D", "E", "F", "G", "H", "I",
      "J", "K", "L", "M", "N", "O", "P", "Q", "R", "S", "T", "U", "V", "W",
      "X", "Y", "Z", "[", "REVERSE SOLIDUS", "]", "^", "_", "GRAVE ACCENT",
      "a", "b", "c", "d", "e", "f", "g", "h", "i", "j", "k", "l", "m", "n", "o", "p", "q", "r", "s",
      "t", "u", "v", "w", "x", "y", "z", "{", "|", "}", "~">>

\* A line feed, U+000A.
LF == "\n"

\* An unpaired surrogate code unit, U+D800.
LoneSurrogate == "U+D800"

\* The UTF-16 code unit of a character.
CharCode(c) ==
    IF c = LF THEN 10
    ELSE IF c = LoneSurrogate THEN 55296
    ELSE 31 + (CHOOSE i \in 1..Len(Ascii) : Ascii[i] = c)

\* a < b as the < operator (and the default sort) compares two strings: by
\* code units, a proper prefix first.
RECURSIVE StrLess(_, _)
StrLess(a, b) ==
    IF b = <<>> THEN FALSE
    ELSE IF a = <<>> THEN TRUE
    ELSE IF Head(a) = Head(b) THEN StrLess(Tail(a), Tail(b))
    ELSE CharCode(Head(a)) < CharCode(Head(b))

\* Array.prototype.join: the elements separated by sep.
RECURSIVE Join(_, _)
Join(strs, sep) ==
    IF strs = <<>> THEN <<>>
    ELSE IF Len(strs) = 1 THEN strs[1]
    ELSE strs[1] \o sep \o Join(Tail(strs), sep)

\* The value undefined, and String(undefined).
Undefined == <<"undefined">>
UndefinedText == <<"u", "n", "d", "e", "f", "i", "n", "e", "d">>

\* String(v) for a string or undefined, as + and encodeURIComponent convert.
StringOf(v) == IF v = Undefined THEN UndefinedText ELSE v

\* Truthiness of a string or undefined.
Truthy(v) == v # Undefined /\ v # <<>>

\* The strings of at most n characters over an alphabet.
StringsUpTo(alphabet, n) == UNION {[1..k -> alphabet] : k \in 0..n}

-----------------------------------------------------------------------------
(* package.json objects and the directory tree *)

\* The "author" property: absent, a shorthand string, or an object with name
\* and email (an absent or empty member is <<>>: both are falsy).  The member
\* text is what String(author) gives.
NoAuthor == [type |-> "undefined", text |-> UndefinedText, name |-> <<>>, email |-> <<>>]
AuthorString(s) == [type |-> "string", text |-> s, name |-> <<>>, email |-> <<>>]
AuthorObject(n, e) ==
    [type |-> "object",
     text |-> <<"[", "o", "b", "j", "e", "c", "t", " ", "O", "b", "j", "e", "c", "t", "]">>,
     name |-> n, email |-> e]

\* A parsed package.json.  A property that is absent or empty is <<>>, except
\* version, which is Undefined when absent.
Package(name, version, author, description, license) ==
    [name |-> name, version |-> version, author |-> author,
     description |-> description, license |-> license]

\* node_modules/b/package.json
PkgB ==
    Package(<<"b">>, <<"1">>, AuthorString(<<"J", " ", "<", "e", ">">>),
            <<"d">>, <<"M", "I", "T">>)

\* node_modules/c/node_modules/b/package.json: a second copy of b 1 whose
\* package.json differs in its metadata
PkgBCopy ==
    Package(<<"b">>, <<"1">>, AuthorObject(<<"K">>, <<"k">>),
            <<>>, <<"(", "M", "I", "T", " ", "O", "R", " ", "X", ")">>)

\* node_modules/@s/p/package.json: a scoped package
PkgScoped == Package(<<"@", "s", "/", "p">>, <<"2">>, NoAuthor, <<>>, <<"M", "I", "T">>)

\* package.json of the application itself: named, but without a version
PkgApp == Package(<<"a">>, Undefined, NoAuthor, <<"e">>, <<>>)

\* a package.json that declares no name, such as { "type": "module" }
PkgMarker == Package(<<>>, Undefined, NoAuthor, <<>>, <<>>)

\* node_modules/x/package.json whose name holds an unpaired surrogate
PkgMalformed == Package(<<"x", LoneSurrogate>>, <<"1">>, NoAuthor, <<>>, <<>>)

\* The files a compilation may depend on.
Files == {"src/main.js", "node_modules/b/index.js", "node_modules/b/lib/x.js",
          "node_modules/c/node_modules/b/index.js", "node_modules/@s/p/p.js",
          "node_modules/x/x.js", "/tmp/generated.js"}

\* finder(file) of find-package-json: the package.json objects of the
\* directories above the file, nearest first, in the order in which the
\* iterator's next() yields them.
finder(file) ==
    CASE file = "src/main.js" -> <<PkgApp>>
      [] file = "node_modules/b/index.js" -> <<PkgB, PkgApp>>
      [] file = "node_modules/b/lib/x.js" -> <<PkgMarker, PkgB, PkgApp>>
      [] file = "node_modules/c/node_modules/b/index.js" -> <<PkgBCopy, PkgApp>>
      [] file = "node_modules/@s/p/p.js" -> <<PkgScoped, PkgApp>>
      [] file = "node_modules/x/x.js" -> <<PkgMalformed, PkgApp>>
      [] file = "/tmp/generated.js" -> <<PkgMarker>>

\* currentModule.value once the iterator is done: undefined.
NoPackage == [undefined |-> TRUE]

\* value?.name
NameOf(value) == IF value = NoPackage THEN Undefined ELSE value.name

\* #findPackage without its loop: the nearest package.json, named or not.
findPackageNearest(moduleFinder) ==
    IF moduleFinder = <<>> THEN NoPackage ELSE Head(moduleFinder)

\* The loop of #findPackage over what is left of the iterator: next() until
\* the iterator is done or the package it yields has a truthy name; the
\* result is currentModule.value.
RECURSIVE findPackage(_)
findPackage(moduleFinder) ==
    IF moduleFinder = <<>> THEN NoPackage
    ELSE IF Truthy(NameOf(Head(moduleFinder))) THEN Head(moduleFinder)
    ELSE findPackage(Tail(moduleFinder))

-----------------------------------------------------------------------------
(* The object moduleCoords *)

\* An object whose property names are no array indices keeps its own
\* properties in insertion order; every name here holds a ":".  It is the
\* sequence of its [key, value] properties.
HasProperty(obj, key) == \E i \in 1..Len(obj) : obj[i].key = key

\* SetProperty as an array push would do it: every assignment appends.
SetPropertyAppend(obj, key, value) == Append(obj, [key |-> key, value |-> value])

\* SetProperty guarded by a membership test: an existing property keeps its
\* value.
SetPropertyIfAbsent(obj, key, value) ==
    IF HasProperty(obj, key) THEN obj
    ELSE Append(obj, [key |-> key, value |-> value])

\* SetProperty as delete followed by assignment: an existing property moves
\* to the end.
SetPropertyMoveLast(obj, key, value) ==
    Append(SelectSeq(obj, LAMBDA p : p.key # key), [key |-> key, value |-> value])

\* obj[key] = value: a new property is appended, an existing one keeps its
\* place and takes the new value.
SetProperty(obj, key, value) ==
    IF HasProperty(obj, key)
    THEN [i \in 1..Len(obj) |->
             IF obj[i].key = key THEN [key |-> key, value |-> value] ELSE obj[i]]
    ELSE Append(obj, [key |-> key, value |-> value])

ObjectKeys(obj) == [i \in 1..Len(obj) |-> obj[i].key]
ObjectValues(obj) == [i \in 1..Len(obj) |-> obj[i].value]

\* npmPackage.name + ':' + npmPackage.version
CoordOf(npmPackage) == npmPackage.name \o <<":">> \o StringOf(npmPackage.version)

\* Array.prototype.sort without a comparator: ascending by code units.
RECURSIVE InsertSorted(_, _)
InsertSorted(sorted, s) ==
    IF sorted = <<>> THEN <<s>>
    ELSE IF StrLess(s, Head(sorted)) THEN <<s>> \o sorted
    ELSE <<Head(sorted)>> \o InsertSorted(Tail(sorted), s)

\* Sort left out: the keys in insertion order.
SortOmitted(strs) == strs

RECURSIVE Sort(_)
Sort(strs) ==
    IF strs = <<>> THEN <<>>
    ELSE InsertSorted(Sort(Tail(strs)), Head(strs))

-----------------------------------------------------------------------------
(* encodeURIComponent and String.prototype.replace *)

\* A-Z a-z 0-9
IsAlphanumeric(c) ==
    /\ c # LF
    /\ c # LoneSurrogate
    /\ LET code == CharCode(c) IN
       \/ code \in 48..57
       \/ code \in 65..90
       \/ code \in 97..122

\* The characters encodeURIComponent leaves as they are.
IsUnescaped(c) ==
    IsAlphanumeric(c) \/ c \in {"-", "_", ".", "!", "~", "*", "'", "(", ")"}

HexDigits ==
    <<"0", "1", "2", "3", "4", "5", "6", "7", "8", "9", "A", "B", "C", "D", "E", "F">>

\* The escape of one character below U+0080: "%" and the two hexadecimal
\* digits of its single UTF-8 octet.
Escape(c) ==
    LET code == CharCode(c) IN
    <<"%", HexDigits[(code \div 16) + 1], HexDigits[(code % 16) + 1]>>

\* encodeURIComponent throws a URIError on an unpaired surrogate.
ThrowsURIError(str) == \E i \in 1..Len(str) : str[i] = LoneSurrogate

\* The encoding left out: the string as it is.
encodeURIComponentOmitted(str) == str

\* encodeURIComponent(str), for a str on which it does not throw.
RECURSIVE encodeURIComponent(_)
encodeURIComponent(str) ==
    IF str = <<>> THEN <<>>
    ELSE (IF IsUnescaped(Head(str)) THEN <<Head(str)>> ELSE Escape(Head(str)))
         \o encodeURIComponent(Tail(str))

\* The positions at which pattern occurs in str.
Occurrences(str, pattern) ==
    {i \in 1..(Len(str) - Len(pattern) + 1) :
        SubSeq(str, i, i + Len(pattern) - 1) = pattern}

\* Replace with a global pattern (/%2F/g): every occurrence is replaced.
RECURSIVE ReplaceEvery(_, _, _)
ReplaceEvery(str, pattern, replacement) ==
    IF Len(str) < Len(pattern) \/ pattern = <<>> THEN str
    ELSE IF SubSeq(str, 1, Len(pattern)) = pattern
    THEN replacement \o ReplaceEvery(SubSeq(str, Len(pattern) + 1, Len(str)),
                                     pattern, replacement)
    ELSE <<Head(str)>> \o ReplaceEvery(Tail(str), pattern, replacement)

\* str.replace(pattern, replacement) with a string pattern: only the first
\* occurrence is replaced.
Replace(str, pattern, replacement) ==
    LET at == Occurrences(str, pattern) IN
    IF at = {} THEN str
    ELSE LET i == CHOOSE k \in at : \A m \in at : k <= m IN
         SubSeq(str, 1, i - 1) \o replacement
             \o SubSeq(str, i + Len(pattern), Len(str))

\* The purl of a package: 'pkg:npm/' + encodeURIComponent(name).replace('%2F',
\* '/') + '@' + encodeURIComponent(version).
PurlOf(name, version) ==
    <<"p", "k", "g", ":", "n", "p", "m", "/">>
        \o Replace(encodeURIComponent(StringOf(name)), <<"%", "2", "F">>, <<"/">>)
        \o <<"@">>
        \o encodeURIComponent(StringOf(version))

-----------------------------------------------------------------------------
(* #toSBOMAuthors *)

\* \s, among the characters of the model.
IsSpace(c) == c \in {" ", LF}

\* str after its leading whitespace: where a greedy \s* stops.
RECURSIVE SkipSpace(_)
SkipSpace(str) ==
    IF str # <<>> /\ IsSpace(Head(str)) THEN SkipSpace(Tail(str)) ELSE str

\* The first position of character c in str, 0 when there is none.
IndexOf(str, c) ==
    IF \E i \in 1..Len(str) : str[i] = c
    THEN CHOOSE i \in 1..Len(str) : str[i] = c /\ \A j \in 1..(i - 1) : str[j] # c
    ELSE 0

NoMatch == [matched |-> FALSE]

\* (?:\(([^)]*)\))?$ on str: the end of the string, or one parenthesised
\* group that ends the string.
MatchURL(str, email) ==
    IF str = <<>> THEN [matched |-> TRUE, email |-> email, url |-> Undefined]
    ELSE IF Head(str) = "(" /\ IndexOf(str, ")") = Len(str)
    THEN [matched |-> TRUE, email |-> email, url |-> SubSeq(str, 2, Len(str) - 1)]
    ELSE NoMatch

\* \s*(?:<([^>]*)>)?\s*(?:\(([^)]*)\))?$ on str, the part of the string that
\* follows group 1.  An email group can only start at a "<" and a URL group
\* at a "(", so at most one way of matching exists.
MatchTail(str) ==
    LET rest == SkipSpace(str) IN
    IF rest # <<>> /\ Head(rest) = "<" /\ IndexOf(rest, ">") > 0
    THEN MatchURL(SkipSpace(SubSeq(rest, IndexOf(rest, ">") + 1, Len(rest))),
                  SubSeq(rest, 2, IndexOf(rest, ">") - 1))
    ELSE MatchURL(rest, Undefined)

\* The pattern with a greedy group 1, /^(.*)\s*.../: group 1 takes the whole
\* line and the optional groups match nothing.
AuthorPatternGreedy(str) ==
    IF \E i \in 1..Len(str) : str[i] = LF THEN NoMatch
    ELSE [matched |-> TRUE, name |-> str, email |-> Undefined, url |-> Undefined]

\* /^(.*?)\s*(?:<([^>]*)>)?\s*(?:\(([^)]*)\))?$/.exec(str): group 1 is lazy,
\* so it is the shortest prefix without a line terminator after which the
\* rest of the pattern matches.
AuthorPattern(str) ==
    LET ends == {k \in 0..Len(str) :
                    /\ \A i \in 1..k : str[i] # LF
                    /\ MatchTail(SubSeq(str, k + 1, Len(str))).matched}
    IN  IF ends = {} THEN NoMatch
        ELSE LET k == CHOOSE e \in ends : \A m \in ends : e <= m
                 tail == MatchTail(SubSeq(str, k + 1, Len(str)))
             IN  [matched |-> TRUE, name |-> SubSeq(str, 1, k),
                  email |-> tail.email, url |-> tail.url]

\* The author object with its optional email.
AuthorEntry(name, email) ==
    IF Truthy(email) THEN [name |-> name, email |-> email] ELSE [name |-> name]

\* #toSBOMAuthors(npmAuthor)
toSBOMAuthors(npmAuthor) ==
    IF Truthy(npmAuthor.name)
    THEN <<AuthorEntry(npmAuthor.name, npmAuthor.email)>>
    ELSE LET values == AuthorPattern(npmAuthor.text) IN
         IF values.matched
         THEN <<AuthorEntry(values.name, values.email)>>
         ELSE <<[name |-> npmAuthor.text]>>

-----------------------------------------------------------------------------
(* #toSBOMLicenses *)

\* The pattern anchored at both ends, /^[A-Za-z0-9+.]+$/: the whole string is
\* made of characters of the class.
IsIdentifierThroughout(npmLicense) ==
    /\ npmLicense # <<>>
    /\ \A i \in 1..Len(npmLicense) :
          IsAlphanumeric(npmLicense[i]) \/ npmLicense[i] \in {"+", "."}

\* /^[A-Za-z0-9+.]+/.exec(npmLicense) is not null: the string starts with a
\* character of the class.
StartsLikeIdentifier(npmLicense) ==
    /\ npmLicense # <<>>
    /\ (IsAlphanumeric(Head(npmLicense)) \/ Head(npmLicense) \in {"+", "."})

\* #toSBOMLicenses(npmLicense)
toSBOMLicenses(npmLicense) ==
    IF StartsLikeIdentifier(npmLicense)
    THEN <<[license |-> [id |-> npmLicense]]>>
    ELSE <<[expression |-> npmLicense]>>

-----------------------------------------------------------------------------
(* #toSBOM *)

\* if (npmPackage.author)
HasAuthor(npmPackage) ==
    \/ npmPackage.author.type = "object"
    \/ npmPackage.author.type = "string" /\ npmPackage.author.text # <<>>

\* The component of one package.
ComponentOf(npmPackage) ==
    LET purl == PurlOf(npmPackage.name, npmPackage.version) IN
    ("bom-ref" :> purl)
    @@ [type |-> "library", name |-> npmPackage.name,
        version |-> npmPackage.version, purl |-> purl]
    @@ (IF HasAuthor(npmPackage)
        THEN [authors |-> toSBOMAuthors(npmPackage.author)] ELSE <<>>)
    @@ (IF Truthy(npmPackage.description)
        THEN [description |-> npmPackage.description] ELSE <<>>)
    @@ (IF Truthy(npmPackage.license)
        THEN [licenses |-> toSBOMLicenses(npmPackage.license)] ELSE <<>>)

\* The dependency entry referring to the package by its name.
DependencyOfName(npmPackage) == [ref |-> npmPackage.name]

\* The dependency entry of one package.
DependencyOf(npmPackage) == [ref |-> PurlOf(npmPackage.name, npmPackage.version)]

\* The values uuidv4() and new Date().toISOString() can give.
UUIDs == {"uuid-1", "uuid-2"}
Timestamps == {"T1", "T2"}

\* #toSBOM throws when encodeURIComponent does.
toSBOMThrows(npmPackages) ==
    \E i \in 1..Len(npmPackages) :
        \/ ThrowsURIError(StringOf(npmPackages[i].name))
        \/ ThrowsURIError(StringOf(npmPackages[i].version))

\* #toSBOM(npmPackages), given what uuidv4() and the clock return.
toSBOM(npmPackages, uuid, now) ==
    [computed |-> TRUE,
     bomFormat |-> "CycloneDX",
     specVersion |-> "1.6",
     serialNumber |-> <<"urn:uuid:", uuid>>,
     version |-> 1,
     metadata |-> [timestamp |-> now],
     components |-> [i \in 1..Len(npmPackages) |-> ComponentOf(npmPackages[i])],
     dependencies |-> [i \in 1..Len(npmPackages) |-> DependencyOf(npmPackages[i])]]

-----------------------------------------------------------------------------
(* The done hook *)

\* A file on disk: absent, or holding data (in full, or the part of it that
\* a failed write left behind).
Absent == [state |-> "absent"]
Written(data) == [state |-> "written", data |-> data]
Partial(data) == [state |-> "partial", data |-> data]

\* The hook has computed no SBOM yet.
NoSBOM == [computed |-> FALSE]

\* The orders in which a compilation's set of file dependencies can iterate:
\* the sequences without repetition of at most MaxFiles files.
FileLists ==
    {fs \in UNION {[1..k -> Files] : k \in 0..MaxFiles} :
        \A i, j \in 1..Len(fs) : fs[i] = fs[j] => i = j}

Init ==
    /\ pc = "forEach"
    /\ fileDependencies \in FileLists
    /\ cursor = 1
    /\ moduleCoords = <<>>
    /\ dirExists \in BOOLEAN
    /\ outputFile = Absent
    /\ sbomFile = Absent
    /\ sbom = NoSBOM
    /\ thrown = "nothing"
    /\ arg = <<>>
    /\ ret = <<>>

\* Collect without the test of the name: whatever #findPackage returned is
\* stored, under "undefined:undefined" when it returned undefined.
CollectUnchecked(obj, file) ==
    LET npmPackage == findPackage(finder(file)) IN
    IF npmPackage = NoPackage
    THEN SetProperty(obj, UndefinedText \o <<":">> \o UndefinedText, PkgMarker)
    ELSE SetProperty(obj, CoordOf(npmPackage), npmPackage)

\* The forEach callback on one file: locate its package and, when the package
\* has a truthy name, store it under its coordinates.
Collect(obj, file) ==
    LET npmPackage == findPackage(finder(file)) IN
    IF Truthy(NameOf(npmPackage))
    THEN SetProperty(obj, CoordOf(npmPackage), npmPackage)
    ELSE obj

ForEachFile ==
    /\ pc = "forEach"
    /\ cursor <= Len(fileDependencies)
    /\ moduleCoords' = Collect(moduleCoords, fileDependencies[cursor])
    /\ cursor' = cursor + 1
    /\ UNCHANGED <<pc, fileDependencies, dirExists, outputFile, sbomFile, sbom,
                   thrown, arg, ret>>

\* if (!fs.existsSync(outputPath)) fs.mkdirSync(outputPath, ...): the
\* directory exists afterwards, or mkdirSync throws.
CreateOutputPath ==
    /\ pc = "forEach"
    /\ cursor > Len(fileDependencies)
    /\ \/ /\ pc' = "writeList"
          /\ dirExists' = TRUE
          /\ UNCHANGED thrown
       \/ /\ ~dirExists
          /\ pc' = "failed"
          /\ thrown' = "mkdirSync"
          /\ UNCHANGED dirExists
    /\ UNCHANGED <<fileDependencies, cursor, moduleCoords, outputFile, sbomFile,
                   sbom, arg, ret>>

\* The text of the dependency list: the sorted coordinates, one per line.
ListText(obj) == Join(Sort(ObjectKeys(obj)), <<LF>>) \o <<LF>>

\* What a writeFileSync that throws can leave of a file: the file as it was
\* (it could not be opened), or a proper prefix of the data.
FailedWrites(before, data) ==
    {before} \cup {Partial(SubSeq(data, 1, n)) : n \in 0..(Len(data) - 1)}

\* WriteList moved into the forEach: the list is written while files are
\* still being visited.
WriteListEarly ==
    /\ pc \in {"forEach", "writeList"}
    /\ outputFile' = Written(ListText(moduleCoords))
    /\ pc' = IF pc = "writeList" THEN "toSBOM" ELSE pc
    /\ UNCHANGED <<fileDependencies, cursor, moduleCoords, dirExists, sbomFile,
                   sbom, thrown, arg, ret>>

\* fs.writeFileSync(outputFile, sortedCoords.join('\n') + '\n')
WriteList ==
    /\ pc = "writeList"
    /\ LET text == ListText(moduleCoords) IN
       \/ /\ outputFile' = Written(text)
          /\ pc' = "toSBOM"
          /\ UNCHANGED thrown
       \/ /\ outputFile' \in FailedWrites(outputFile, text)
          /\ pc' = "failed"
          /\ thrown' = "writeFileSync(outputFile)"
    /\ UNCHANGED <<fileDependencies, cursor, moduleCoords, dirExists, sbomFile,
                   sbom, arg, ret>>

\* const sbom = DependencyListPlugin.#toSBOM(Object.values(moduleCoords))
BuildSBOM ==
    /\ pc = "toSBOM"
    /\ LET npmPackages == ObjectValues(moduleCoords) IN
       IF toSBOMThrows(npmPackages)
       THEN /\ pc' = "failed"
            /\ thrown' = "toSBOM"
            /\ UNCHANGED sbom
       ELSE /\ \E uuid \in UUIDs, now \in Timestamps :
                  sbom' = toSBOM(npmPackages, uuid, now)
            /\ pc' = "writeSBOM"
            /\ UNCHANGED thrown
    /\ UNCHANGED <<fileDependencies, cursor, moduleCoords, dirExists, outputFile,
                   sbomFile, arg, ret>>

\* fs.writeFileSync(sbomFile, JSON.stringify(sbom, null, 4)).  The file holds
\* the document; a write that throws leaves the file as it was or a part of
\* the text.
WriteSBOM ==
    /\ pc = "writeSBOM"
    /\ \/ /\ sbomFile' = Written(sbom)
          /\ pc' = "done"
          /\ UNCHANGED thrown
       \/ /\ sbomFile' \in {sbomFile, Partial(sbom)}
          /\ pc' = "failed"
          /\ thrown' = "writeFileSync(sbomFile)"
    /\ UNCHANGED <<fileDependencies, cursor, moduleCoords, dirExists, outputFile,
                   sbom, arg, ret>>

Next == ForEachFile \/ CreateOutputPath \/ WriteList \/ BuildSBOM \/ WriteSBOM

Spec == Init /\ [][Next]_vars

-----------------------------------------------------------------------------
(* The helpers called on their own *)

\* The done hook does not run.
HookIdle ==
    /\ fileDependencies = <<>>
    /\ cursor = 1
    /\ moduleCoords = <<>>
    /\ dirExists = FALSE
    /\ outputFile = Absent
    /\ sbomFile = Absent
    /\ sbom = NoSBOM
    /\ thrown = "nothing"

HookUnchanged ==
    UNCHANGED <<fileDependencies, cursor, moduleCoords, dirExists, outputFile,
                sbomFile, sbom, thrown>>

NoReturn == [returned |-> FALSE]
Returned(value) == [returned |-> TRUE, threw |-> FALSE, value |-> value]
Threw(error) == [returned |-> FALSE, threw |-> TRUE, error |-> error]

\* Package names and versions for the purl of lines 248-249.
PurlAlphabet == {"a", "/", "@", ":", "%", "!", LoneSurrogate}
PurlNames ==
    (StringsUpTo(PurlAlphabet, MaxNameLen) \ {<<>>})
        \cup {<<"@", "s", "c", "o", "p", "e", "/", "p", "k", "g">>,
              <<"l", "e", "f", "t", "-", "p", "a", "d">>}
PurlVersions ==
    StringsUpTo({"1", "+"}, MaxVersionLen)
        \cup {Undefined, <<"2", ".", "0", ".", "0">>, <<"1", ".", "3", ".", "0">>}

InitPurl ==
    /\ pc = "call"
    /\ arg \in [name : PurlNames, version : PurlVersions]
    /\ ret = NoReturn
    /\ HookIdle

CallPurl ==
    /\ pc = "call"
    /\ pc' = "return"
    /\ ret' = IF ThrowsURIError(StringOf(arg.name)) \/ ThrowsURIError(StringOf(arg.version))
              THEN Threw("URIError")
              ELSE Returned(PurlOf(arg.name, arg.version))
    /\ UNCHANGED arg
    /\ HookUnchanged

NextPurl == CallPurl

SpecPurl == InitPurl /\ [][NextPurl]_vars

\* package.json chains for #findPackage.
LocatePackages == {PkgMarker, PkgB, PkgApp, PkgScoped}
LocateChains == UNION {[1..k -> LocatePackages] : k \in 0..MaxDepth}

InitFindPackage ==
    /\ pc = "call"
    /\ arg \in LocateChains
    /\ ret = NoReturn
    /\ HookIdle

CallFindPackage ==
    /\ pc = "call"
    /\ pc' = "return"
    /\ ret' = Returned(findPackage(arg))
    /\ UNCHANGED arg
    /\ HookUnchanged

NextFindPackage == CallFindPackage

SpecFindPackage == InitFindPackage /\ [][NextFindPackage]_vars

\* Shorthand author strings for #toSBOMAuthors, by their parts: whitespace,
\* a name, whitespace, an optional <email>, whitespace, an optional (url).
\* An absent part is Undefined.
SpaceRuns == StringsUpTo({" ", LF}, MaxSpace)
AuthorNames == {<<"J">>, <<"J", " ", "D">>, <<"J", LF, "D">>}
AuthorEmails == {Undefined, <<>>, <<"e">>}
AuthorURLs == {Undefined, <<>>, <<"u">>}

\* The shorthand string made of the parts.
Shorthand(parts) ==
    parts.lead \o parts.name \o parts.gap
        \o (IF parts.email = Undefined THEN <<>> ELSE <<"<">> \o parts.email \o <<">">>)
        \o parts.gap2
        \o (IF parts.url = Undefined THEN <<>> ELSE <<"(">> \o parts.url \o <<")">>)

InitAuthors ==
    /\ pc = "call"
    /\ arg \in [lead : SpaceRuns, name : AuthorNames, gap : SpaceRuns,
                email : AuthorEmails, gap2 : SpaceRuns, url : AuthorURLs]
    /\ ret = NoReturn
    /\ HookIdle

CallAuthors ==
    /\ pc = "call"
    /\ pc' = "return"
    /\ ret' = Returned(toSBOMAuthors(AuthorString(Shorthand(arg))))
    /\ UNCHANGED arg
    /\ HookUnchanged

NextAuthors == CallAuthors

SpecAuthors == InitAuthors /\ [][NextAuthors]_vars

\* License strings for #toSBOMLicenses; it is called on non-empty strings.
LicenseAlphabet == {"M", "t", "2", "+", ".", "(", " ", "-"}
LicenseMIT == <<"M", "I", "T">>
LicenseExpression ==
    <<"(", "M", "I", "T", " ", "O", "R", " ", "A", "p", "a", "c", "h", "e", "-",
      "2", ".", "0", ")">>
Licenses ==
    (StringsUpTo(LicenseAlphabet, MaxLicenseLen) \ {<<>>})
        \cup {LicenseMIT, LicenseExpression}

InitLicenses ==
    /\ pc = "call"
    /\ arg \in Licenses
    /\ ret = NoReturn
    /\ HookIdle

CallLicenses ==
    /\ pc = "call"
    /\ pc' = "return"
    /\ ret' = Returned(toSBOMLicenses(arg))
    /\ UNCHANGED arg
    /\ HookUnchanged

NextLicenses == CallLicenses

SpecLicenses == InitLicenses /\ [][NextLicenses]_vars

\* Pairs of packages for the references of an SBOM: what two files of one
\* pass resolve to.
RefNames == StringsUpTo({"a", "/", "@"}, MaxRefNameLen) \ {<<>>}
RefVersions == StringsUpTo({"1", "@"}, MaxRefVersionLen) \cup {Undefined}
RefPackages ==
    {Package(name, version, NoAuthor, <<>>, <<>>) :
        name \in RefNames, version \in RefVersions}

InitRefs ==
    /\ pc = "call"
    /\ arg \in RefPackages \X RefPackages
    /\ ret = NoReturn
    /\ HookIdle

\* Both packages are stored under their coordinates and the stored values
\* become the components and dependencies of the SBOM.
CallRefs ==
    /\ pc = "call"
    /\ pc' = "return"
    /\ LET coords == SetProperty(SetProperty(<<>>, CoordOf(arg[1]), arg[1]),
                                 CoordOf(arg[2]), arg[2])
           npmPackages == ObjectValues(coords)
       IN  ret' = Returned(
               [keys |-> ObjectKeys(coords),
                components |-> [i \in 1..Len(npmPackages) |-> ComponentOf(npmPackages[i])],
                dependencies |-> [i \in 1..Len(npmPackages) |-> DependencyOf(npmPackages[i])]])
    /\ UNCHANGED arg
    /\ HookUnchanged

NextRefs == CallRefs

SpecRefs == InitRefs /\ [][NextRefs]_vars

-----------------------------------------------------------------------------
(* Properties of the done hook *)

\* The files the forEach has visited so far, in the order of the visits.
Visited == SubSeq(fileDependencies, 1, cursor - 1)

\* The package a file resolves to, whether it resolves to a named one, and
\* the name:version pair of a file that does.
PackageOfFile(file) == findPackage(finder(file))
Resolves(file) == Truthy(NameOf(PackageOfFile(file)))
CoordOfFile(file) ==
    PackageOfFile(file).name \o <<":">> \o StringOf(PackageOfFile(file).version)

\* The lines of a text in which every line ends with a line feed.
RECURSIVE LinesOf(_)
LinesOf(text) ==
    IF text = <<>> THEN <<>>
    ELSE LET n == IndexOf(text, LF) IN
         <<SubSeq(text, 1, n - 1)>> \o LinesOf(SubSeq(text, n + 1, Len(text)))

\* How often a value occurs in a sequence.
Count(seq, x) == Cardinality({i \in 1..Len(seq) : seq[i] = x})

\* The name:version pair of an SBOM component.
CoordOfComponent(component) ==
    component.name \o <<":">> \o StringOf(component.version)

\* The visited files that resolve to a given name:version pair, by position.
VisitsOf(coord) ==
    {i \in 1..Len(Visited) : Resolves(Visited[i]) /\ CoordOfFile(Visited[i]) = coord}
FirstVisitOf(coord) == CHOOSE i \in VisitsOf(coord) : \A j \in VisitsOf(coord) : i <= j
LastVisitOf(coord) == CHOOSE i \in VisitsOf(coord) : \A j \in VisitsOf(coord) : i >= j

\* C1: once the dependency list is written, every name:version pair that at
\* least one file dependency resolved to is exactly one line of it, however
\* many files resolved to that pair.
C1_OneLinePerPackage ==
    outputFile.state = "written" =>
        \A i \in 1..Len(fileDependencies) :
            Resolves(fileDependencies[i]) =>
                Count(LinesOf(outputFile.data), CoordOfFile(fileDependencies[i])) = 1

\* C1, reached: a list was written after two different files resolved to the
\* same name:version pair.
C1_Witness ==
    /\ outputFile.state = "written"
    /\ \E i, j \in 1..Len(fileDependencies) :
          /\ i # j
          /\ Resolves(fileDependencies[i])
          /\ Resolves(fileDependencies[j])
          /\ CoordOfFile(fileDependencies[i]) = CoordOfFile(fileDependencies[j])

\* C2 as the specification states it: the first package resolved for a
\* name:version pair stays in the registry, and the SBOM component of the
\* pair is the one built from that first package.
C2_FirstOccurrenceWins ==
    /\ \A i \in 1..Len(moduleCoords) :
          moduleCoords[i].value
              = PackageOfFile(Visited[FirstVisitOf(moduleCoords[i].key)])
    /\ sbom.computed =>
          \A i \in 1..Len(sbom.components) :
              sbom.components[i]
                  = ComponentOf(PackageOfFile(
                        Visited[FirstVisitOf(CoordOfComponent(sbom.components[i]))]))

\* C2, amended: the registry holds one entry per name:version pair, and the
\* entry is the package most recently resolved for the pair (a later file
\* that resolves to the pair replaces the stored package); the SBOM component
\* of the pair carries the metadata of that last package.
C2_LastOccurrenceWins ==
    /\ \A i, j \in 1..Len(moduleCoords) :
          moduleCoords[i].key = moduleCoords[j].key => i = j
    /\ \A i \in 1..Len(moduleCoords) :
          moduleCoords[i].value
              = PackageOfFile(Visited[LastVisitOf(moduleCoords[i].key)])
    /\ sbom.computed =>
          \A i \in 1..Len(sbom.components) :
              sbom.components[i]
                  = ComponentOf(PackageOfFile(
                        Visited[LastVisitOf(CoordOfComponent(sbom.components[i]))]))

\* C2, reached: an SBOM was computed after two files resolved to the same
\* name:version pair through package.json files with different metadata.
C2_Witness ==
    /\ sbom.computed
    /\ \E i, j \in 1..Len(fileDependencies) :
          /\ i < j
          /\ Resolves(fileDependencies[i])
          /\ Resolves(fileDependencies[j])
          /\ CoordOfFile(fileDependencies[i]) = CoordOfFile(fileDependencies[j])
          /\ PackageOfFile(fileDependencies[i]) # PackageOfFile(fileDependencies[j])

\* C3: in every SBOM the builder produces, components and dependencies have
\* the same length, and the i-th dependency's ref is the i-th component's
\* bom-ref, which is also that component's purl.
C3_RefsMatchComponents ==
    sbom.computed =>
        /\ Len(sbom.components) = Len(sbom.dependencies)
        /\ \A i \in 1..Len(sbom.components) :
              /\ sbom.dependencies[i].ref = sbom.components[i]["bom-ref"]
              /\ sbom.components[i]["bom-ref"] = sbom.components[i].purl

\* C3, reached: an SBOM with at least two components, one of a scoped package.
C3_Witness ==
    /\ sbom.computed
    /\ Len(sbom.components) >= 2
    /\ \E i \in 1..Len(sbom.components) : sbom.components[i].name = PkgScoped.name

\* C5 as the specification states it: a file is written only once the SBOM
\* document has been computed, and after a failure no output file has been
\* written.
C5_WritesAfterAllComputation ==
    /\ (outputFile # Absent \/ sbomFile # Absent) => sbom.computed
    /\ pc = "failed" => (outputFile = Absent /\ sbomFile = Absent)

\* C5, amended: nothing is written before every file has been visited; the
\* dependency list is written before the SBOM is computed, and the SBOM file
\* only after the list is on disk in full.  When the directory cannot be
\* created no file has been written; when writing the list fails no SBOM has
\* been computed or written; when computing or writing the SBOM fails, the
\* list written by this run stays on disk in full.
C5_ListWrittenBeforeSBOM ==
    /\ (outputFile # Absent \/ sbomFile # Absent) => cursor > Len(fileDependencies)
    /\ sbom.computed => outputFile = Written(ListText(moduleCoords))
    /\ sbomFile # Absent => sbom.computed
    /\ thrown = "mkdirSync" => (outputFile = Absent /\ sbomFile = Absent)
    /\ thrown = "writeFileSync(outputFile)" => (~sbom.computed /\ sbomFile = Absent)
    /\ thrown \in {"toSBOM", "writeFileSync(sbomFile)"} =>
          outputFile = Written(ListText(moduleCoords))

\* C5, reached: the write of the SBOM file failed and the list is on disk.
C5_Witness ==
    /\ pc = "failed"
    /\ thrown = "writeFileSync(sbomFile)"
    /\ outputFile.state = "written"
    /\ Len(moduleCoords) >= 2

\* The name:version pairs of the visited files that resolve, each at the
\* place of its first occurrence.
FirstSeenCoords ==
    LET firsts == {i \in 1..Len(Visited) :
                      /\ Resolves(Visited[i])
                      /\ i = FirstVisitOf(CoordOfFile(Visited[i]))}
        RECURSIVE InOrder(_)
        InOrder(from) ==
            IF from > Len(Visited) THEN <<>>
            ELSE (IF from \in firsts THEN <<CoordOfFile(Visited[from])>> ELSE <<>>)
                 \o InOrder(from + 1)
    IN  InOrder(1)

\* C6: the components and the dependencies of the SBOM stand in the order in
\* which their name:version pairs were first inserted during the pass over
\* the files; a later file that resolves to a pair already present does not
\* move it, and the order is not the sorted one.
C6_ComponentsInInsertionOrder ==
    sbom.computed =>
        /\ [i \in 1..Len(sbom.components) |-> CoordOfComponent(sbom.components[i])]
              = FirstSeenCoords
        /\ [i \in 1..Len(sbom.dependencies) |-> sbom.dependencies[i].ref]
              = [i \in 1..Len(sbom.components) |-> sbom.components[i].purl]

\* C6, reached: an SBOM whose first component sorts after its second one, and
\* whose first pair was resolved again by the last file visited.
C6_Witness ==
    /\ sbom.computed
    /\ Len(sbom.components) >= 2
    /\ StrLess(CoordOfComponent(sbom.components[2]),
               CoordOfComponent(sbom.components[1]))
    /\ Cardinality(VisitsOf(CoordOfComponent(sbom.components[1]))) >= 2
    /\ LastVisitOf(CoordOfComponent(sbom.components[1])) = Len(fileDependencies)

\* C7: the lines of the dependency list are the registry keys in ascending
\* order by code units: each line is strictly smaller than the next one,
\* whatever the order of the files.  (With no key at all the text is a
\* single line feed.)
C7_ListSorted ==
    outputFile.state = "written" =>
        LET lines == LinesOf(outputFile.data) IN
        /\ \A i \in 1..(Len(lines) - 1) : StrLess(lines[i], lines[i + 1])
        /\ moduleCoords # <<>> =>
              /\ Len(lines) = Len(moduleCoords)
              /\ {lines[i] : i \in 1..Len(lines)}
                    = {moduleCoords[i].key : i \in 1..Len(moduleCoords)}
        /\ moduleCoords = <<>> => outputFile.data = <<LF>>

\* C7, reached: a list of three lines written from keys that were inserted in
\* another order than the sorted one.
C7_Witness ==
    /\ outputFile.state = "written"
    /\ Len(moduleCoords) >= 3
    /\ \E i \in 1..(Len(moduleCoords) - 1) :
          StrLess(moduleCoords[i + 1].key, moduleCoords[i].key)

-----------------------------------------------------------------------------
(* Properties of the helpers *)

PurlPrefix == <<"p", "k", "g", ":", "n", "p", "m", "/">>

\* The percent-encoding of the characters drawn for names and versions, as
\* RFC 3986 tabulates it; letters, digits, "-" and "." stand for themselves.
PercentEncoded(c) ==
    CASE c = "/" -> <<"%", "2", "F">>
      [] c = "@" -> <<"%", "4", "0">>
      [] c = ":" -> <<"%", "3", "A">>
      [] c = "%" -> <<"%", "2", "5">>
      [] c = "+" -> <<"%", "2", "B">>
      [] OTHER -> <<c>>

\* A string with every character percent-encoded, except that "/" is kept
\* as it is while slashesKept is positive (each kept "/" uses one up).
RECURSIVE EncodedKeeping(_, _)
EncodedKeeping(str, slashesKept) ==
    IF str = <<>> THEN <<>>
    ELSE IF Head(str) = "/" /\ slashesKept > 0
    THEN <<"/">> \o EncodedKeeping(Tail(str), slashesKept - 1)
    ELSE PercentEncoded(Head(str)) \o EncodedKeeping(Tail(str), slashesKept)

ScopedExample ==
    [name |-> <<"@", "s", "c", "o", "p", "e", "/", "p", "k", "g">>,
     version |-> <<"2", ".", "0", ".", "0">>]

\* C4 as the specification states it: every "/" of the name stays unescaped,
\* every other reserved character of name and version is percent-encoded, and
\* purl("@scope/pkg", "2.0.0") is "pkg:npm/@scope/pkg@2.0.0".
C4_EverySlashKept ==
    (pc = "return" /\ ret.returned) =>
        /\ ret.value = PurlPrefix
                          \o EncodedKeeping(StringOf(arg.name), Len(StringOf(arg.name)))
                          \o <<"@">>
                          \o EncodedKeeping(StringOf(arg.version), 0)
        /\ arg = ScopedExample =>
              ret.value = PurlPrefix \o ScopedExample.name \o <<"@">> \o ScopedExample.version

\* C4, amended: for a name and a version that encodeURIComponent accepts, the
\* purl is "pkg:npm/" + encoded name + "@" + encoded version, where only the
\* first "/" of the name is kept unescaped (a further "/" becomes %2F) and
\* every other character outside A-Z a-z 0-9 - _ . ! ~ * ' ( ) is
\* percent-encoded, the "@" of a scope included: purl("@scope/pkg", "2.0.0")
\* is "pkg:npm/%40scope/pkg@2.0.0".
C4_FirstSlashKept ==
    (pc = "return" /\ ret.returned) =>
        /\ ret.value = PurlPrefix
                          \o EncodedKeeping(StringOf(arg.name), 1)
                          \o <<"@">>
                          \o EncodedKeeping(StringOf(arg.version), 0)
        /\ arg = ScopedExample =>
              ret.value = PurlPrefix
                             \o <<"%", "4", "0", "s", "c", "o", "p", "e", "/", "p", "k", "g">>
                             \o <<"@">> \o ScopedExample.version

\* C4, reached: the purl of a name with two slashes and a scope sign.
C4_Witness ==
    /\ pc = "return"
    /\ ret.returned
    /\ Count(arg.name, "/") = 2
    /\ Count(arg.name, "@") = 1

\* C8: #findPackage looks at the package.json objects from the nearest to the
\* farthest, skips every one without a non-empty name and returns the nearest
\* one that has a non-empty name; when none has, it returns undefined and
\* raises no error.
C8_NearestNamedPackage ==
    pc = "return" =>
        LET named == {i \in 1..Len(arg) : arg[i].name # <<>>} IN
        /\ ret.returned
        /\ named = {} => ret.value = NoPackage
        /\ named # {} =>
              ret.value = arg[CHOOSE i \in named : \A j \in named : i <= j]

\* C8, reached: the walk skipped two unnamed package.json files and returned
\* the named one above them.
C8_Witness ==
    /\ pc = "return"
    /\ Len(arg) = 3
    /\ arg[1].name = <<>>
    /\ arg[2].name = <<>>
    /\ arg[3].name # <<>>
    /\ ret.value = arg[3]

\* A string without its leading, and without its trailing, whitespace.
RECURSIVE TrimEnd(_)
TrimEnd(str) ==
    IF str # <<>> /\ str[Len(str)] \in {" ", LF}
    THEN TrimEnd(SubSeq(str, 1, Len(str) - 1)) ELSE str

RECURSIVE TrimStart(_)
TrimStart(str) ==
    IF str # <<>> /\ Head(str) \in {" ", LF} THEN TrimStart(Tail(str)) ELSE str

\* What is left of a shorthand string without its email and URL parts.
RestOf(parts) == parts.lead \o parts.name \o parts.gap \o parts.gap2

\* C9 as the specification states it, for the strings the amended statement
\* covers (an empty <> counted as no email): one entry, whose name is the
\* rest of the string trimmed on both sides, with the email iff one was
\* captured between "<" and ">", and without the URL.
C9_NameTrimmedBothSides ==
    (pc = "return" /\ \A i \in 1..Len(TrimEnd(RestOf(arg))) : TrimEnd(RestOf(arg))[i] # LF) =>
        /\ Len(ret.value) = 1
        /\ ret.value[1].name = TrimStart(TrimEnd(RestOf(arg)))
        /\ ("email" \in DOMAIN ret.value[1]) <=> (arg.email # Undefined /\ arg.email # <<>>)
        /\ ("email" \in DOMAIN ret.value[1]) => ret.value[1].email = arg.email
        /\ DOMAIN ret.value[1] \subseteq {"name", "email"}

\* C9, amended: for a shorthand string whose name part, up to its last
\* character that is no whitespace, holds no line terminator (and none of
\* < > ( )), the one entry returned has as its name the text before the
\* email and URL parts with its trailing whitespace removed and its leading
\* whitespace kept; it has the email iff a non-empty email was captured
\* between "<" and ">"; it never carries the URL.
C9_NameTrimmedAtEnd ==
    (pc = "return" /\ \A i \in 1..Len(TrimEnd(RestOf(arg))) : TrimEnd(RestOf(arg))[i] # LF) =>
        /\ Len(ret.value) = 1
        /\ ret.value[1].name = TrimEnd(RestOf(arg))
        /\ ("email" \in DOMAIN ret.value[1]) <=> (arg.email # Undefined /\ arg.email # <<>>)
        /\ ("email" \in DOMAIN ret.value[1]) => ret.value[1].email = arg.email
        /\ DOMAIN ret.value[1] \subseteq {"name", "email"}

\* C9, reached: name, email and URL are all present, and whitespace precedes
\* the name.
C9_Witness ==
    /\ pc = "return"
    /\ arg.lead = <<" ">>
    /\ arg.name = <<"J", " ", "D">>
    /\ arg.gap = <<" ">>
    /\ arg.email = <<"e">>
    /\ arg.url = <<"u">>
    /\ ret.value = <<[name |-> <<" ", "J", " ", "D">>, email |-> <<"e">>]>>

\* The characters of the class [A-Za-z0-9+.].
IdentifierCharacters ==
    {"A", "B", "C", "D", "E", "F", "G", "H", "I", "J", "K", "L", "M", "N", "O",
     "P", "Q", "R", "S", "T", "U", "V", "W", "X", "Y", "Z", "a", "b", "c", "d",
     "e", "f", "g", "h", "i", "j", "k", "l", "m", "n", "o", "p", "q", "r", "s",
     "t", "u", "v", "w", "x", "y", "z", "0", "1", "2", "3", "4", "5", "6", "7",
     "8", "9", "+", "."}

-----------------------------------------------------------------------------
(* The order of the file dependencies *)

\* The file dependencies in every order in which the set could iterate.
Reorderings ==
    LET n == Len(fileDependencies)
        bijections == {f \in [1..n -> 1..n] : \A i, j \in 1..n : f[i] = f[j] => i = j}
    IN  {[i \in 1..n |-> fileDependencies[f[i]]] : f \in bijections}

\* moduleCoords after the forEach has visited the files of a list in turn.
RECURSIVE RegistryAfter(_)
RegistryAfter(files) ==
    IF files = <<>> THEN <<>>
    ELSE Collect(RegistryAfter(SubSeq(files, 1, Len(files) - 1)), files[Len(files)])

\* The components a pass over a list of files puts into the SBOM, as a set.
ComponentsAfter(files) ==
    {ComponentOf(RegistryAfter(files)[i].value) : i \in 1..Len(RegistryAfter(files))}

\* A component without its optional metadata.
Identity(component) ==
    [name |-> component.name, version |-> component.version,
     purl |-> component.purl, ref |-> component["bom-ref"], type |-> component.type]

\* No two visited files resolve to the same name:version pair through
\* package.json objects that differ.
SameCoordSamePackage ==
    \A i, j \in 1..Len(fileDependencies) :
        (/\ Resolves(fileDependencies[i])
         /\ Resolves(fileDependencies[j])
         /\ CoordOfFile(fileDependencies[i]) = CoordOfFile(fileDependencies[j]))
            => PackageOfFile(fileDependencies[i]) = PackageOfFile(fileDependencies[j])

\* C11 as the specification states it: a pass over the same files in any
\* other order gives the same text of the dependency list and the same set
\* of SBOM components (serial number and timestamp are no part of them).
C11_OrderIrrelevant ==
    sbom.computed =>
        \A files \in Reorderings :
            /\ ListText(RegistryAfter(files)) = outputFile.data
            /\ ComponentsAfter(files)
                  = {sbom.components[i] : i \in 1..Len(sbom.components)}

\* C11, amended: a pass over the same files in any other order gives the
\* same text of the dependency list and the same set of SBOM components as
\* far as name, version, purl and bom-ref go.  The optional metadata
\* (authors, description, licenses) of a component is that of the
\* package.json visited last for its name:version pair, so the full
\* components agree for every order only when the files that share a pair
\* resolve to package.json objects with the same content.
C11_OrderIrrelevantUpToMetadata ==
    sbom.computed =>
        \A files \in Reorderings :
            /\ ListText(RegistryAfter(files)) = outputFile.data
            /\ {Identity(c) : c \in ComponentsAfter(files)}
                  = {Identity(sbom.components[i]) : i \in 1..Len(sbom.components)}
            /\ SameCoordSamePackage =>
                  ComponentsAfter(files)
                      = {sbom.components[i] : i \in 1..Len(sbom.components)}

\* C11, reached: an SBOM computed from three files, the first and the last
\* of which resolve to the same pair through package.json objects that
\* differ, with a file of a pair that sorts first in between.
C11_Witness ==
    /\ sbom.computed
    /\ Len(fileDependencies) = 3
    /\ Len(sbom.components) = 2
    /\ ~SameCoordSamePackage
    /\ CoordOfFile(fileDependencies[1]) = CoordOfFile(fileDependencies[3])
    /\ StrLess(CoordOfFile(fileDependencies[2]), CoordOfFile(fileDependencies[1]))

-----------------------------------------------------------------------------
(* Files without a package *)

\* The name:version pairs of the files of a list that resolve to a package.
CoordsOf(files) ==
    {CoordOfFile(files[i]) : i \in {j \in 1..Len(files) : Resolves(files[j])}}

\* C12: a file none of whose ancestor directories has a package.json with a
\* non-empty name adds nothing to the registry: the registry keys, the lines
\* of the dependency list and the SBOM components and dependencies are those
\* of the files that do resolve, one each per name:version pair; the pass
\* goes on to the next file and the forEach raises no failure.
C12_UnresolvedFileAddsNothing ==
    /\ {moduleCoords[i].key : i \in 1..Len(moduleCoords)} = CoordsOf(Visited)
    /\ Len(moduleCoords) = Cardinality(CoordsOf(Visited))
    /\ moduleCoords = RegistryAfter(SelectSeq(Visited, Resolves))
    /\ outputFile.state = "written" =>
          outputFile.data = ListText(RegistryAfter(SelectSeq(fileDependencies, Resolves)))
    /\ sbom.computed =>
          /\ Len(sbom.components) = Cardinality(CoordsOf(fileDependencies))
          /\ Len(sbom.dependencies) = Cardinality(CoordsOf(fileDependencies))
          /\ {CoordOfComponent(sbom.components[i]) : i \in 1..Len(sbom.components)}
                = CoordsOf(fileDependencies)
    /\ pc = "forEach" => thrown = "nothing"
    /\ thrown # "nothing" => cursor > Len(fileDependencies)

\* C12, reached: an SBOM computed after a pass in which a file without a
\* package was visited between two files that resolve.
C12_Witness ==
    /\ sbom.computed
    /\ Len(fileDependencies) = 3
    /\ ~Resolves(fileDependencies[2])
    /\ Len(sbom.components) = 2

-----------------------------------------------------------------------------
(* References *)

\* C13: the bom-ref values of the components of an SBOM are pairwise
\* distinct, because two different registry keys name:version never give the
\* same purl; so the ref of each dependency addresses exactly one component.
C13_RefsDistinct ==
    pc = "return" =>
        LET components == ret.value.components
            dependencies == ret.value.dependencies
        IN  /\ Len(components) = Len(ret.value.keys)
            /\ \A i, j \in 1..Len(components) :
                  components[i]["bom-ref"] = components[j]["bom-ref"] => i = j
            /\ \A i \in 1..Len(dependencies) :
                  Cardinality({j \in 1..Len(components) :
                                  components[j]["bom-ref"] = dependencies[i].ref}) = 1

\* C13, reached: an SBOM of two packages whose name:version keys differ only
\* in where the "@" stands, in the name or in the version.
C13_Witness ==
    /\ pc = "return"
    /\ Len(ret.value.components) = 2
    /\ arg[1].name = <<"a", "@">>
    /\ arg[1].version = <<>>
    /\ arg[2].name = <<"a">>
    /\ arg[2].version = <<"@">>

====
